---- MODULE Spec2Model ----
(***************************************************************************)
(* Model of the tool-calling conversation engine of Build2Ship-AI: the     *)
(* chat script deployed into the container (utils/chat_script.py, embedded *)
(* a second time in llm.py).  The state is the transcript `messages`, the  *)
(* workspace file tree, and the position of the conversation loop.         *)
(***************************************************************************)
EXTENDS Integers, Sequences, FiniteSets, TLC

VARIABLES
    pc,          \* position of main(): which blocking call the loop is at
    messages,    \* the transcript (chat_script.py:276)
    response,    \* assistant_message: the latest response of the provider
    idx,         \* position of the for loop over tool calls (chat_script.py:347)
    fs,          \* the file tree the executors act on (absolute path -> node)
    turns,       \* user messages accepted so far
    rounds,      \* model responses with tool calls so far
    issued,      \* call ids handed out by the provider so far
    modelCalls,  \* client.chat.completions.create invocations so far
    sent,        \* the messages argument of the latest model call
    preLen,      \* len(messages) just before the latest user message was appended
    execLog,     \* ids of the calls whose executor was actually invoked, in order
    lastEvent,   \* what the latest step of the loop did
    line,        \* what input() returned to the latest step, NoLine if not called
    log,         \* the latest direct executor calls, while they name one path
    current_container,  \* app.py:24, the container the web interface is attached to
    openai_api_key,     \* app.py:26, the key read from the environment at start
    requests,    \* per handler thread of the web server: the request it serves
    stdin,       \* the lines piped to the chat process and not yet read
    message,     \* the message of the /api/ai/chat request being served
    script,      \* which host script runs: setup_container.py or llm.py
    step,        \* position of main() of that script
    container_id,  \* setup_container.py:94, llm.py:837
    trace,       \* what main() did so far: steps, prompts, answers, removals, reports
    status       \* the exit status of the script once it ended

\* the chat process in the container
chatVars == <<pc, messages, response, idx, fs, turns, rounds, issued, modelCalls,
              sent, preLen, execLog, lastEvent, line, log>>

\* the web server
webVars == <<current_container, openai_api_key, requests>>

\* the pipe of /api/ai/chat
pipeVars == <<stdin, message>>

\* the setup and manager scripts
setupVars == <<script, step, container_id, trace, status>>

hostVars == <<webVars, pipeVars, setupVars>>

vars == <<chatVars, hostVars>>

----------------------------------------------------------------------------
(* Bounds of the model *)

\* user messages the operator submits in one session
MaxTurns == 2

\* tool calls the provider requests in one session, over all its responses
MaxToolCalls == 3

\* never binding in the loop as written: every model call follows a user
\* message or a response with at least one tool call
MaxModelCalls == MaxTurns + MaxToolCalls

----------------------------------------------------------------------------
(* Small helpers *)

Last(s) == s[Len(s)]

Front(s) == SubSeq(s, 1, Len(s) - 1)

IsPrefix(s, t) == Len(s) <= Len(t) /\ SubSeq(t, 1, Len(s)) = s

----------------------------------------------------------------------------
(* JSON texts.  A text is a record [json, members]: json says what the     *)
(* text parses to ("object", "array") or that it does not parse            *)
(* ("malformed"); members is the mapping an object text denotes.           *)

JsonObject(m) == [json |-> "object", members |-> m]

JsonArray == [json |-> "array", members |-> <<>>]

JsonMalformed == [json |-> "malformed", members |-> <<>>]

\* json.loads: raises on a text that is no JSON, else yields the value
JsonLoads(text) ==
    IF text.json = "malformed"
    THEN [raised |-> TRUE, isDict |-> FALSE, value |-> <<>>]
    ELSE [raised |-> FALSE, isDict |-> text.json = "object", value |-> text.members]

\* json.dumps of a dict of strings, numbers, booleans and lists
JsonDumps(d) == JsonObject(d)

----------------------------------------------------------------------------
(* The file tree.  A path is a sequence of segments; an absolute path      *)
(* starts with the segment "/".  fs maps every existing absolute path      *)
(* (without "." and ".." segments) to its node.  The content of a file is  *)
(* the sequence of its characters.                                         *)

WORKSPACE == <<"/", "workspace">>

Root == <<"/">>

DirNode == [kind |-> "dir", content |-> <<>>]

FileNode(c) == [kind |-> "file", content |-> c]

IsAbsolute(p) == Len(p) > 0 /\ p[1] = "/"

\* pathlib drops "." segments when it parses a path
DropDots(p) == SelectSeq(p, LAMBDA s : s # ".")

\* PurePath.__truediv__: an absolute right operand replaces the left one
JoinPath(base, p) ==
    IF IsAbsolute(p) THEN DropDots(p) ELSE base \o DropDots(p)

\* PurePath.parent: lexical, the root is its own parent
Parent(p) == IF Len(p) <= 1 THEN p ELSE Front(p)

\* the kernel's path walk: every component but the last must be an existing
\* directory, ".." steps to the parent of the directory reached so far
RECURSIVE WalkFrom(_, _, _)
WalkFrom(f, cur, rest) ==
    IF rest = <<>> THEN [err |-> "none", path |-> cur]
    ELSE IF cur \notin DOMAIN f THEN [err |-> "ENOENT", path |-> cur]
    ELSE IF f[cur].kind # "dir" THEN [err |-> "ENOTDIR", path |-> cur]
    ELSE WalkFrom(f,
                  IF Head(rest) = ".." THEN Parent(cur) ELSE Append(cur, Head(rest)),
                  Tail(rest))

Resolve(f, p) == WalkFrom(f, Root, Tail(p))

Exists(f, p) == LET r == Resolve(f, p) IN r.err = "none" /\ r.path \in DOMAIN f

\* Path.is_file / Path.is_dir: False on every error
IsFile(f, p) == Exists(f, p) /\ f[Resolve(f, p).path].kind = "file"

IsDir(f, p) == Exists(f, p) /\ f[Resolve(f, p).path].kind = "dir"

\* str(e) of the OSError the kernel's errno becomes; a text is a sequence of
\* its parts
ErrText(e) ==
    CASE e = "ENOENT" -> <<"No such file or directory">>
      [] e = "ENOTDIR" -> <<"Not a directory">>
      [] e = "EISDIR" -> <<"Is a directory">>
      [] e = "EEXIST" -> <<"File exists">>
      [] e = "ENOTEMPTY" -> <<"Directory not empty">>
      [] e = "EBUSY" -> <<"Device or resource busy">>
      [] OTHER -> <<e>>

\* os.mkdir
OsMkdir(f, p) ==
    LET r == Resolve(f, p) IN
    IF r.err # "none" THEN [fs |-> f, err |-> r.err]
    ELSE IF r.path \in DOMAIN f THEN [fs |-> f, err |-> "EEXIST"]
    ELSE [fs |-> (r.path :> DirNode) @@ f, err |-> "none"]

\* Path.mkdir(parents=True, exist_ok=True)
RECURSIVE MkdirParents(_, _)
MkdirParents(f, p) ==
    LET m == OsMkdir(f, p) IN
    IF m.err = "none" THEN m
    ELSE IF m.err = "ENOENT"
    THEN IF Parent(p) = p THEN m
         ELSE LET up == MkdirParents(f, Parent(p)) IN
              IF up.err # "none" THEN up
              ELSE LET again == OsMkdir(up.fs, p) IN
                   IF again.err = "none" \/ IsDir(up.fs, p)
                   THEN [fs |-> again.fs, err |-> "none"]
                   ELSE again
    ELSE IF IsDir(f, p) THEN [fs |-> f, err |-> "none"]
    ELSE m

\* os.linesep of the container (Linux)
LineSep == <<"\n">>

\* what a file opened for writing in text mode with newline=None stores:
\* every "\n" is written as os.linesep
RECURSIVE WriteNewlines(_)
WriteNewlines(c) ==
    IF c = <<>> THEN <<>>
    ELSE (IF Head(c) = "\n" THEN LineSep ELSE <<Head(c)>>) \o WriteNewlines(Tail(c))

\* what a file opened for reading in text mode with newline=None yields:
\* "\r\n" and a lone "\r" are read as "\n"
RECURSIVE UniversalNewlines(_)
UniversalNewlines(c) ==
    IF c = <<>> THEN <<>>
    ELSE IF Head(c) = "\r"
    THEN <<"\n">> \o UniversalNewlines(IF Len(c) >= 2 /\ c[2] = "\n"
                                        THEN Tail(Tail(c)) ELSE Tail(c))
    ELSE <<Head(c)>> \o UniversalNewlines(Tail(c))

\* Path.write_text: open(path, "w") and write
WriteText(f, p, c) ==
    LET r == Resolve(f, p) IN
    IF r.err # "none" THEN [fs |-> f, err |-> r.err]
    ELSE IF r.path \in DOMAIN f /\ f[r.path].kind = "dir"
    THEN [fs |-> f, err |-> "EISDIR"]
    ELSE [fs |-> (r.path :> FileNode(WriteNewlines(c))) @@ f, err |-> "none"]

\* Path.read_text
ReadText(f, p) ==
    LET r == Resolve(f, p) IN
    IF r.err # "none" THEN [err |-> r.err, content |-> <<>>]
    ELSE IF r.path \notin DOMAIN f THEN [err |-> "ENOENT", content |-> <<>>]
    ELSE IF f[r.path].kind = "dir" THEN [err |-> "EISDIR", content |-> <<>>]
    ELSE [err |-> "none", content |-> UniversalNewlines(f[r.path].content)]

\* faulty variant: nothing is removed
KeepTree(f, q) == f

\* the tree without path q and everything below it
RemoveTree(f, q) == [x \in {y \in DOMAIN f : ~IsPrefix(q, y)} |-> f[x]]

\* the tree without the entries below directory q
EmptyDir(f, q) == [x \in {y \in DOMAIN f : y = q \/ ~IsPrefix(q, y)} |-> f[x]]

\* shutil.rmtree(p) of a directory: the entries below it are removed, then
\* os.rmdir(p) removes the directory itself.  rmdir fails on the root and on
\* a path that ends in "..": the directory it names through its child is
\* not empty, or the child is gone by then
RmTree(f, p) ==
    LET target == Resolve(f, p).path
        emptied == EmptyDir(f, target)
    IN  IF Last(p) = ".."
        THEN [fs |-> emptied,
              err |-> IF Resolve(emptied, p).err # "none"
                      THEN Resolve(emptied, p).err ELSE "ENOTEMPTY"]
        ELSE IF target = Root THEN [fs |-> emptied, err |-> "EBUSY"]
        ELSE [fs |-> RemoveTree(f, target), err |-> "none"]

----------------------------------------------------------------------------
(* The executors.  Each yields the result envelope and the new file tree.  *)

Failure(text) == [success |-> FALSE, error |-> text]

create_file(f, filepath, content) ==
    LET full_path == JoinPath(WORKSPACE, filepath)
        made == MkdirParents(f, Parent(full_path))
        written == WriteText(made.fs, full_path, content)
    IN  IF made.err # "none"
        THEN [env |-> Failure(ErrText(made.err)), fs |-> made.fs]
        ELSE IF written.err # "none"
        THEN [env |-> Failure(ErrText(written.err)), fs |-> made.fs]
        ELSE [env |-> [success |-> TRUE,
                       message |-> <<"File created: ", filepath>>,
                       path |-> full_path],
              fs |-> written.fs]

read_file(f, filepath) ==
    LET full_path == JoinPath(WORKSPACE, filepath)
        got == ReadText(f, full_path)
    IN  IF got.err # "none"
        THEN [env |-> Failure(ErrText(got.err)), fs |-> f]
        ELSE [env |-> [success |-> TRUE, content |-> got.content,
                       size |-> Len(got.content)],
              fs |-> f]

delete_file(f, filepath) ==
    LET full_path == JoinPath(WORKSPACE, filepath)
        target == Resolve(f, full_path).path
    IN  IF IsFile(f, full_path)
        THEN [env |-> [success |-> TRUE, message |-> <<"File deleted: ", filepath>>],
              fs |-> RemoveTree(f, target)]
        ELSE IF IsDir(f, full_path)
        THEN LET removed == RmTree(f, full_path) IN
             IF removed.err # "none"
             THEN [env |-> Failure(ErrText(removed.err)), fs |-> removed.fs]
             ELSE [env |-> [success |-> TRUE,
                            message |-> <<"Directory deleted: ", filepath>>],
                   fs |-> removed.fs]
        ELSE [env |-> Failure(<<"Path does not exist">>), fs |-> f]

\* the segment names of the model in the order Python compares strings
NameOrder == <<"..", "a.txt", "b.txt", "d", "o.txt", "workspace">>

NameRank(n) ==
    IF \E i \in 1..Len(NameOrder) : NameOrder[i] = n
    THEN CHOOSE i \in 1..Len(NameOrder) : NameOrder[i] = n
    ELSE 0

\* faulty variant: descending order
RECURSIVE SortNamesDescending(_)
SortNamesDescending(S) ==
    IF S = {} THEN <<>>
    ELSE LET most == CHOOSE n \in S : \A m \in S : NameRank(n) >= NameRank(m)
         IN  <<most>> \o SortNamesDescending(S \ {most})

\* sorted(): the names of set S as a sequence in ascending order
RECURSIVE SortNames(_)
SortNames(S) ==
    IF S = {} THEN <<>>
    ELSE LET least == CHOOSE n \in S : \A m \in S : NameRank(n) <= NameRank(m)
         IN  <<least>> \o SortNames(S \ {least})

\* os.listdir: the names of the entries directly below directory q
ChildNames(f, q) == {Last(y) : y \in {x \in DOMAIN f : Len(x) = Len(q) + 1 /\ IsPrefix(q, x)}}

\* one entry of list_files: item is full_path / name (lexical)
ListItem(f, item) ==
    [name |-> Last(item),
     path |-> SubSeq(item, Len(WORKSPACE) + 1, Len(item)),
     type |-> IF IsDir(f, item) THEN "directory" ELSE "file",
     size |-> IF IsFile(f, item) THEN <<Len(f[Resolve(f, item).path].content)>> ELSE <<>>]

\* def list_files(dirpath=".")
DefaultDirpath == <<".">>

list_files(f, dirpath) ==
    LET full_path == JoinPath(WORKSPACE, dirpath)
        r == Resolve(f, full_path)
        names == SortNames(ChildNames(f, r.path))
        items == [i \in 1..Len(names) |-> ListItem(f, Append(full_path, names[i]))]
    IN  IF r.err # "none" THEN [env |-> Failure(ErrText(r.err)), fs |-> f]
        ELSE IF r.path \notin DOMAIN f THEN [env |-> Failure(ErrText("ENOENT")), fs |-> f]
        ELSE IF f[r.path].kind # "dir" THEN [env |-> Failure(ErrText("ENOTDIR")), fs |-> f]
        ELSE IF \E i \in 1..Len(names) : ~IsPrefix(WORKSPACE, Append(full_path, names[i]))
        THEN [env |-> Failure(<<"path is not in the subpath of /workspace">>), fs |-> f]
        ELSE [env |-> [success |-> TRUE, items |-> items, count |-> Len(items)],
              fs |-> f]

\* subprocess.run(..., timeout=30): what the child process did
TimeoutSeconds == 30

ChildOutcomes ==
    {[kind |-> "exit", returncode |-> 0, stdout |-> "out", stderr |-> ""],
     [kind |-> "exit", returncode |-> 1, stdout |-> "", stderr |-> "err"],
     [kind |-> "timeout", returncode |-> 0, stdout |-> "", stderr |-> ""],
     [kind |-> "oserror", returncode |-> 0, stdout |-> "", stderr |-> ""]}

\* faulty variant: no except clause for TimeoutExpired, the generic one
\* reports it
RunChildGeneric(f, child) ==
    IF child.kind \in {"timeout", "oserror"}
    THEN [env |-> Failure(<<"OSError">>), fs |-> f]
    ELSE [env |-> [success |-> child.returncode = 0,
                   stdout |-> child.stdout,
                   stderr |-> child.stderr,
                   returncode |-> child.returncode],
          fs |-> f]

RunChild(f, child) ==
    IF child.kind = "timeout"
    THEN [env |-> Failure(<<"Execution timed out (30s limit)">>), fs |-> f]
    ELSE IF child.kind = "oserror"
    THEN [env |-> Failure(<<"OSError">>), fs |-> f]
    ELSE IF child.kind = "decode_error"
    THEN [env |-> Failure(<<"codec can't decode byte">>), fs |-> f]
    ELSE [env |-> [success |-> child.returncode = 0,
                   stdout |-> child.stdout,
                   stderr |-> child.stderr,
                   returncode |-> child.returncode],
          fs |-> f]

execute_python(f, code, child) == RunChild(f, child)

execute_bash(f, command, child) == RunChild(f, child)

----------------------------------------------------------------------------
(* The dispatcher *)

FUNCTION_MAP ==
    {"create_file", "read_file", "list_files", "execute_python", "execute_bash",
     "delete_file"}

\* the parameters of each executor's signature, and those without a default
Params(name) ==
    CASE name = "create_file" -> {"filepath", "content"}
      [] name = "read_file" -> {"filepath"}
      [] name = "list_files" -> {"dirpath"}
      [] name = "execute_python" -> {"code"}
      [] name = "execute_bash" -> {"command"}
      [] name = "delete_file" -> {"filepath"}
      [] OTHER -> {}

Required(name) == IF name = "list_files" THEN {} ELSE Params(name)

\* FUNCTION_MAP[func_name](**func_args): whether Python can bind the call
Binds(name, parsed) ==
    /\ parsed.isDict
    /\ DOMAIN parsed.value \subseteq Params(name)
    /\ Required(name) \subseteq DOMAIN parsed.value

Invoke(name, a, f, child) ==
    CASE name = "create_file" -> create_file(f, a.filepath, a.content)
      [] name = "read_file" -> read_file(f, a.filepath)
      [] name = "list_files" ->
            list_files(f, IF "dirpath" \in DOMAIN a THEN a.dirpath ELSE DefaultDirpath)
      [] name = "execute_python" -> execute_python(f, a.code, child)
      [] name = "execute_bash" -> execute_bash(f, a.command, child)
      [] name = "delete_file" -> delete_file(f, a.filepath)

\* the outcome of execute_tool_call: raised, or the JSON text it returns, with
\* the file tree afterwards and whether an executor ran
Raised(f) == [raised |-> TRUE, result |-> JsonMalformed, fs |-> f, ran |-> FALSE]

execute_tool_call(tool_call, f, child) ==
    LET func_name == tool_call.function.name
        func_args == JsonLoads(tool_call.function.arguments)
    IN  IF func_args.raised THEN Raised(f)
        ELSE IF func_name \in FUNCTION_MAP
        THEN IF ~Binds(func_name, func_args) THEN Raised(f)
             ELSE LET out == Invoke(func_name, func_args.value, f, child)
                  IN  [raised |-> FALSE, result |-> JsonDumps(out.env),
                       fs |-> out.fs, ran |-> TRUE]
        ELSE [raised |-> FALSE,
              result |-> JsonDumps(Failure(<<"Unknown function: ", func_name>>)),
              fs |-> f, ran |-> FALSE]

----------------------------------------------------------------------------
(* The operator's input lines: sequences of characters *)

Whitespace == {" ", "\t", "\n", "\r"}

UpperLetters == <<"E", "X", "I", "T", "Q", "U", "H", "Y", "S", "N", "O">>

LowerLetters == <<"e", "x", "i", "t", "q", "u", "h", "y", "s", "n", "o">>

LowerChar(c) ==
    IF \E i \in 1..Len(UpperLetters) : UpperLetters[i] = c
    THEN LowerLetters[CHOOSE i \in 1..Len(UpperLetters) : UpperLetters[i] = c]
    ELSE c

\* faulty variant: the case of the line is kept
NoLower(s) == s

\* str.lower
Lower(s) == [i \in 1..Len(s) |-> LowerChar(s[i])]

RECURSIVE LStrip(_)
LStrip(s) == IF s # <<>> /\ Head(s) \in Whitespace THEN LStrip(Tail(s)) ELSE s

RECURSIVE RStrip(_)
RStrip(s) == IF s # <<>> /\ Last(s) \in Whitespace THEN RStrip(Front(s)) ELSE s

\* faulty variant: the line is used as typed
NoStrip(s) == s

\* str.strip
Strip(s) == RStrip(LStrip(s))

ExitWords == {<<"e", "x", "i", "t">>, <<"q", "u", "i", "t">>}

\* the lines the operator types: blank ones, the exit words in several
\* spellings, and a message that only starts like an exit word
RawInputs ==
    {<<>>, <<" ">>,
     <<"e", "x", "i", "t">>, <<" ", "E", "x", "I", "t">>, <<"Q", "U", "I", "T", " ">>,
     <<" ", "e", "x", "i", "t", "s", "\t">>}

\* the value of `line` after a step that did not return from input()
NoLine == <<"no line">>

----------------------------------------------------------------------------
(* What the provider can answer *)

\* an optional text: <<>> is None, <<t>> is the text t
None == <<>>

Some(t) == <<t>>

APath == <<"a.txt">>

\* name and argument text of the calls the modelled provider may request
ModelToolCalls ==
    {[name |-> "create_file",
      arguments |-> JsonObject([filepath |-> APath, content |-> <<"x">>])],
     [name |-> "read_file", arguments |-> JsonObject([filepath |-> APath])],
     [name |-> "frobnicate", arguments |-> JsonObject([filepath |-> APath])],
     [name |-> "read_file", arguments |-> JsonMalformed],
     [name |-> "create_file", arguments |-> JsonObject([filepath |-> APath])]}

\* the calls of the runs that are checked for liveness: one that succeeds and
\* one that raises
LiveToolCalls ==
    {k \in ModelToolCalls :
        \/ k.name = "create_file" /\ "content" \in DOMAIN k.arguments.members
        \/ k.arguments.json = "malformed"}

\* the call lists of at most n calls drawn from K
CallSeqs(K, n) == UNION {[1..k -> K] : k \in 1..n}

\* the tool_calls list of a response: the provider numbers the calls
ToolCallsOf(kinds, from) ==
    [i \in 1..Len(kinds) |->
        [id |-> from + i,
         type |-> "function",
         function |-> [name |-> kinds[i].name, arguments |-> kinds[i].arguments]]]

ToolContents == {None}

FinalContents == {None, Some(""), Some("answer")}

----------------------------------------------------------------------------
(* The conversation loop: main() *)

SystemMessage == [role |-> "system", content |-> "SYSTEM_PROMPT"]

UserMessage(text) == [role |-> "user", content |-> text]

\* chat_script.py:331-345
AssistantToolMessage(resp) ==
    [role |-> "assistant", content |-> resp.content, tool_calls |-> resp.tool_calls]

\* faulty variant: the tool message is keyed to the wrong call
ToolMessageWrongId(tool_call, result) ==
    [role |-> "tool", tool_call_id |-> tool_call.id + 1, content |-> result]

\* chat_script.py:355-359
ToolMessage(tool_call, result) ==
    [role |-> "tool", tool_call_id |-> tool_call.id, content |-> result]

\* faulty variant: a missing text is formatted instead of replaced by ""
ContentFormatted(c) == IF c = None THEN "None" ELSE c[1]

\* assistant_message.content or ""
ContentOrEmpty(c) == IF c = None THEN "" ELSE c[1]

\* chat_script.py:379-382
AssistantMessage(resp) == [role |-> "assistant", content |-> ContentOrEmpty(resp.content)]

\* the truth value of assistant_message.tool_calls (None and [] are both false)
HasToolCalls(resp) == Len(resp.tool_calls) > 0

\* faulty variant: pop(0) instead of pop()
PopFirst(msgs) ==
    IF Last(msgs).role = "user" THEN Tail(msgs) ELSE msgs

\* the except clause of the inner loop, chat_script.py:386-391
HandleException(msgs) ==
    IF Last(msgs).role = "user" THEN Front(msgs) ELSE msgs

\* faulty variant: break instead of continue after the last tool call
AfterToolCallBreak(i, n) == IF i < n THEN "DispatchingTools" ELSE "AwaitingUserInput"

\* faulty variant: the for loop never hands control back to the model call
AfterToolCallStuck(i, n) == "DispatchingTools"

\* where the for loop over the tool calls goes after call i of n:
\* chat_script.py:347 and the continue of line 367
AfterToolCall(i, n) == IF i < n THEN "DispatchingTools" ELSE "AwaitingModelResponse"

NoResponse == [content |-> None, tool_calls |-> <<>>]

\* the handler threads of the web server (app.py:471, threaded=True)
Threads == {"t1", "t2"}

\* a thread that serves no request
IdleRequest ==
    [endpoint |-> "none", at |-> "idle", arg |-> None, seen |-> None,
     target |-> None, reply |-> [success |-> FALSE, error |-> "", attached |-> FALSE]]

\* no chat process is fed through a pipe
PipeIdle == stdin = <<>> /\ message = <<>>

\* no host script runs
SetupIdle ==
    /\ script = "none"
    /\ step = "idle"
    /\ container_id = None
    /\ trace = <<>>
    /\ status = None

\* the host side when the web server has started with `key` in its
\* environment (app.py:24-26): nothing attached, no request
HostAtRest(key) ==
    /\ current_container = None
    /\ openai_api_key = key
    /\ requests = [t \in Threads |-> IdleRequest]
    /\ PipeIdle
    /\ SetupIdle

\* the host side while no web server runs
HostIdle ==
    /\ current_container = None
    /\ openai_api_key = None
    /\ requests = <<>>
    /\ PipeIdle
    /\ SetupIdle

\* what a chat process starts with: chat_script.py:276-301
ChatFresh ==
    /\ messages = <<SystemMessage>>
    /\ response = NoResponse
    /\ idx = 0
    /\ fs = (Root :> DirNode) @@ (WORKSPACE :> DirNode)
    /\ turns = 0
    /\ rounds = 0
    /\ issued = 0
    /\ modelCalls = 0
    /\ sent = <<>>
    /\ preLen = 0
    /\ execLog = <<>>
    /\ lastEvent = "start"
    /\ line = NoLine
    /\ log = <<>>

\* the chat process at its first prompt
ChatIdle == pc = "AwaitingUserInput" /\ ChatFresh

Init == HostIdle /\ ChatIdle

\* input("You: ") returned the line raw: chat_script.py:305-317
ReadLine(raw) ==
    /\ pc = "AwaitingUserInput"
    /\ LET user_input == Strip(raw) IN
        /\ line' = raw
        /\ IF Lower(user_input) \in ExitWords
           THEN /\ pc' = "Terminated"
                /\ lastEvent' = "goodbye"
                /\ UNCHANGED <<messages, turns, preLen>>
           ELSE IF user_input = <<>>
           THEN /\ lastEvent' = "empty"
                /\ UNCHANGED <<pc, messages, turns, preLen>>
           ELSE /\ turns < MaxTurns
                /\ messages' = Append(messages, UserMessage(user_input))
                /\ preLen' = Len(messages)
                /\ turns' = turns + 1
                /\ pc' = "AwaitingModelResponse"
                /\ lastEvent' = "user"
    /\ UNCHANGED <<response, idx, fs, rounds, issued, modelCalls, sent, execLog, log>>

\* the line is typed at the terminal
ReadInput ==
    /\ \E raw \in RawInputs : ReadLine(raw)
    /\ UNCHANGED hostVars

\* input() raised EOFError: chat_script.py:393-395
EndOfInput ==
    /\ pc = "AwaitingUserInput"
    /\ UNCHANGED hostVars
    /\ pc' = "Terminated"
    /\ lastEvent' = "goodbye"
    /\ line' = NoLine
    /\ UNCHANGED <<messages, response, idx, fs, turns, rounds, issued, modelCalls,
                   sent, preLen, execLog, log>>

\* KeyboardInterrupt, at any blocking call: chat_script.py:396-398
Interrupt ==
    /\ pc # "Terminated"
    /\ UNCHANGED hostVars
    /\ pc' = "Terminated"
    /\ lastEvent' = "goodbye"
    /\ line' = NoLine
    /\ UNCHANGED <<messages, response, idx, fs, turns, rounds, issued, modelCalls,
                   sent, preLen, execLog, log>>

\* what every model call does before its outcome is known: chat_script.py:321-326
CallModel ==
    /\ pc = "AwaitingModelResponse"
    /\ UNCHANGED hostVars
    /\ modelCalls < MaxModelCalls
    /\ modelCalls' = modelCalls + 1
    /\ sent' = messages
    /\ line' = NoLine
    /\ log' = log

\* the model call raised: chat_script.py:386-391
ModelFails ==
    /\ CallModel
    /\ messages' = HandleException(messages)
    /\ pc' = "AwaitingUserInput"
    /\ lastEvent' = "model_error"
    /\ UNCHANGED <<response, idx, fs, turns, rounds, issued, preLen, execLog>>

\* the response carries tool calls, drawn from K: chat_script.py:330-345
ModelRequestsToolsFrom(K) ==
    /\ CallModel
    /\ issued < MaxToolCalls
    /\ \E kinds \in CallSeqs(K, MaxToolCalls - issued), c \in ToolContents :
        LET resp == [content |-> c, tool_calls |-> ToolCallsOf(kinds, issued)] IN
        /\ HasToolCalls(resp)
        /\ response' = resp
        /\ messages' = Append(messages, AssistantToolMessage(resp))
        /\ issued' = issued + Len(kinds)
    /\ rounds' = rounds + 1
    /\ idx' = 1
    /\ pc' = "DispatchingTools"
    /\ lastEvent' = "tool_calls"
    /\ UNCHANGED <<fs, turns, preLen, execLog>>

ModelRequestsTools == ModelRequestsToolsFrom(ModelToolCalls)

\* the response carries no tool calls: chat_script.py:368-384
ModelAnswers ==
    /\ CallModel
    /\ \E c \in FinalContents :
        LET resp == [content |-> c, tool_calls |-> <<>>] IN
        /\ ~HasToolCalls(resp)
        /\ response' = resp
        /\ messages' = Append(messages, AssistantMessage(resp))
    /\ pc' = "AwaitingUserInput"
    /\ lastEvent' = "answer"
    /\ UNCHANGED <<idx, fs, turns, rounds, issued, preLen, execLog>>

\* the call at position pos of the response is run, its tool message is
\* appended and the for loop moves on: chat_script.py:347-367
DispatchAt(pos) ==
    /\ pc = "DispatchingTools"
    /\ UNCHANGED hostVars
    /\ idx \in 1..Len(response.tool_calls)
    /\ \E child \in ChildOutcomes :
        \E tool_call \in {response.tool_calls[pos]} :
        \E func_args \in {JsonLoads(tool_call.function.arguments)} :
        \E out \in {execute_tool_call(tool_call, fs, child)} :
            /\ ~func_args.raised
            /\ ~out.raised
            /\ messages' = Append(messages, ToolMessage(tool_call, out.result))
            /\ fs' = out.fs
            /\ execLog' = IF out.ran THEN Append(execLog, tool_call.id) ELSE execLog
    /\ pc' = AfterToolCall(idx, Len(response.tool_calls))
    /\ idx' = idx + 1
    /\ lastEvent' = "tool_result"
    /\ line' = NoLine
    /\ UNCHANGED <<response, turns, rounds, issued, modelCalls, sent, preLen, log>>

\* faulty variant: the calls of a response are run last to first
DispatchToolReversed == DispatchAt(Len(response.tool_calls) + 1 - idx)

\* one iteration of the for loop that completes: the calls are taken in the
\* order of the list
DispatchTool == DispatchAt(idx)

\* one iteration of the for loop that raises, at json.loads (line 349) or in
\* execute_tool_call (line 353); the except clause of lines 386-391 ends the turn
DispatchRaises ==
    /\ pc = "DispatchingTools"
    /\ UNCHANGED hostVars
    /\ idx \in 1..Len(response.tool_calls)
    /\ \E child \in ChildOutcomes :
        \E tool_call \in {response.tool_calls[idx]} :
        \E func_args \in {JsonLoads(tool_call.function.arguments)} :
        \E out \in {execute_tool_call(tool_call, fs, child)} :
            /\ func_args.raised \/ out.raised
            /\ fs' = IF func_args.raised THEN fs ELSE out.fs
    /\ messages' = HandleException(messages)
    /\ pc' = "AwaitingUserInput"
    /\ lastEvent' = "dispatch_error"
    /\ line' = NoLine
    /\ UNCHANGED <<response, idx, turns, rounds, issued, modelCalls, sent, preLen,
                   execLog, log>>

Next ==
    \/ ReadInput
    \/ EndOfInput
    \/ Interrupt
    \/ ModelFails
    \/ ModelRequestsTools
    \/ ModelAnswers
    \/ DispatchTool
    \/ DispatchRaises

Spec == Init /\ [][Next]_vars

LiveRequestsTools == ModelRequestsToolsFrom(LiveToolCalls)

LiveNext ==
    \/ ReadInput
    \/ EndOfInput
    \/ Interrupt
    \/ ModelFails
    \/ LiveRequestsTools
    \/ ModelAnswers
    \/ DispatchTool
    \/ DispatchRaises

\* the loop under the scheduling the code has: the provider call returns or
\* raises, and every executor returns or raises (file operations end, child
\* processes are killed after the timeout)
FairSpec ==
    /\ Init
    /\ [][LiveNext]_vars
    /\ WF_vars(ModelFails \/ LiveRequestsTools \/ ModelAnswers)
    /\ WF_vars(DispatchTool \/ DispatchRaises)

----------------------------------------------------------------------------
(* The executors called one at a time on a workspace, as the dispatcher    *)
(* calls them, with every path a model may supply                          *)

\* calls on one path that `log` keeps
LogWindow == 3

\* a file of the container outside the workspace
Outside == <<"/", "o.txt">>

\* the paths a call may name: files and a directory of the workspace, a
\* file below a directory, paths with parent-directory segments and an
\* absolute path
Paths ==
    {<<"a.txt">>, <<"d">>, <<"d", "b.txt">>, <<".">>, <<"d", "..">>,
     <<"..", "o.txt">>, Outside}

\* the texts a call may write: one without line ends, one that ends in a
\* carriage return and a line feed
Contents == {<<"x">>, <<"a", "\r", "\n">>}

\* the container before the first call: an empty workspace (chat_script.py:29
\* creates it) and a file elsewhere
FsInit ==
    /\ HostIdle
    /\ pc = "AwaitingUserInput"
    /\ messages = <<SystemMessage>>
    /\ response = NoResponse
    /\ idx = 0
    /\ fs = (Root :> DirNode) @@ (WORKSPACE :> DirNode) @@ (Outside :> FileNode(<<"x">>))
    /\ turns = 0
    /\ rounds = 0
    /\ issued = 0
    /\ modelCalls = 0
    /\ sent = <<>>
    /\ preLen = 0
    /\ execLog = <<>>
    /\ lastEvent = "start"
    /\ line = NoLine
    /\ log = <<>>

\* the log after entry e: it keeps the latest calls on the path of e
Extend(l, e) ==
    IF l # <<>> /\ Last(l).path = e.path
    THEN IF Len(l) < LogWindow THEN Append(l, e) ELSE Append(Tail(l), e)
    ELSE <<e>>

\* an executor was called and returned out: the call, its envelope and the
\* tree it found are logged, the tree is as the executor left it
Returned(name, path, content, given, out) ==
    /\ log' = Extend(log, [name |-> name, path |-> path, content |-> content,
                           given |-> given, env |-> out.env, before |-> fs])
    /\ fs' = out.fs
    /\ UNCHANGED <<pc, messages, response, idx, turns, rounds, issued, modelCalls,
                   sent, preLen, execLog, lastEvent, line>>
    /\ UNCHANGED hostVars

CallCreateFile ==
    \E p \in Paths, c \in Contents :
        Returned("create_file", p, Some(c), TRUE, create_file(fs, p, c))

CallReadFile ==
    \E p \in Paths : Returned("read_file", p, None, TRUE, read_file(fs, p))

CallListFiles ==
    \/ \E d \in Paths : Returned("list_files", d, None, TRUE, list_files(fs, d))
    \/ Returned("list_files", DefaultDirpath, None, FALSE,
                Invoke("list_files", [x \in {} |-> x], fs, CHOOSE c \in ChildOutcomes : TRUE))

CallDeleteFile ==
    \E p \in Paths : Returned("delete_file", p, None, TRUE, delete_file(fs, p))

FsNext ==
    \/ CallCreateFile
    \/ CallReadFile
    \/ CallListFiles
    \/ CallDeleteFile

FsSpec == FsInit /\ [][FsNext]_vars

----------------------------------------------------------------------------
(* execute_python and execute_bash called one at a time, with every way    *)
(* the child process can go                                                *)

\* what can happen to the child of subprocess.run: it cannot be started,
\* or it runs for some seconds, exits with a status and leaves output that
\* is text in the locale's encoding or is not
ChildRuns ==
    {[spawned |-> FALSE, seconds |-> 0, returncode |-> 0, stdout |-> "", stderr |-> "",
      decodable |-> TRUE],
     [spawned |-> TRUE, seconds |-> 1, returncode |-> 0, stdout |-> "x", stderr |-> "",
      decodable |-> TRUE],
     [spawned |-> TRUE, seconds |-> 1, returncode |-> 1, stdout |-> "", stderr |-> "err",
      decodable |-> TRUE],
     [spawned |-> TRUE, seconds |-> 1, returncode |-> 0, stdout |-> "bytes", stderr |-> "",
      decodable |-> FALSE],
     [spawned |-> TRUE, seconds |-> 31, returncode |-> 0, stdout |-> "x", stderr |-> "",
      decodable |-> TRUE]}

\* subprocess.run(..., capture_output=True, text=True, timeout=30): Popen
\* raises OSError, or the wait runs into the timeout, or the output is
\* decoded (which raises on bytes that are no text), or the result is
\* returned
SubprocessRun(run) ==
    [kind |-> IF ~run.spawned THEN "oserror"
              ELSE IF run.seconds > TimeoutSeconds THEN "timeout"
              ELSE IF ~run.decodable THEN "decode_error"
              ELSE "exit",
     returncode |-> run.returncode,
     stdout |-> run.stdout,
     stderr |-> run.stderr]

Codes == {"print('x')"}

\* execute_python or execute_bash was called and returned out; the call, its
\* child and its envelope are logged
ReturnedFrom(name, code, run, out) ==
    /\ log' = Extend(log, [name |-> name, path |-> <<>>, content |-> Some(code),
                           given |-> TRUE, env |-> out.env, before |-> fs,
                           child |-> run])
    /\ fs' = out.fs
    /\ UNCHANGED <<pc, messages, response, idx, turns, rounds, issued, modelCalls,
                   sent, preLen, execLog, lastEvent, line>>
    /\ UNCHANGED hostVars

CallExecutePython ==
    \E code \in Codes, run \in ChildRuns :
        ReturnedFrom("execute_python", code, run,
                     execute_python(fs, code, SubprocessRun(run)))

CallExecuteBash ==
    \E command \in Codes, run \in ChildRuns :
        ReturnedFrom("execute_bash", command, run,
                     execute_bash(fs, command, SubprocessRun(run)))

ExecNext ==
    \/ CallExecutePython
    \/ CallExecuteBash

ExecSpec == FsInit /\ [][ExecNext]_vars

----------------------------------------------------------------------------
(* The web interface (app.py): handler threads that share the global       *)
(* current_container.  A handler is cut at its reads of the global: the    *)
(* attached check, and every Docker command it issues.                     *)

\* the containers docker knows of
Running == {"c1", "c2"}

\* the container named by an attach request: none, a running one, or one
\* that does not exist
AttachArgs == {None, Some("c1"), Some("c2"), Some("gone")}

\* docker inspect <name>: its return code (app.py:99-102)
DockerInspect(name) == IF name \in Running THEN 0 ELSE 1

\* faulty variant: the result of docker inspect is not looked at
NeverFailed(returncode) == FALSE

\* app.py:104
InspectFailed(returncode) == returncode # 0

\* faulty variant: the attached check lets every request through
AlwaysAttached(container) == TRUE

\* the truth value of current_container (app.py:116, 190, 224, 274, 307, 335,
\* 363, 416): None is false, a container name is a non-empty string
Attached(container) == container # None

DependentEndpoints ==
    {"files", "file/read", "file/write", "file/delete", "execute/python",
     "execute/bash", "terminal/stream", "ai/chat"}

Endpoints == DependentEndpoints \cup {"attach", "status"}

\* the endpoints that reject a request without filepath, code, command or
\* message before any Docker command (terminal/stream looks at its command
\* only in the generator)
NeedsArg == DependentEndpoints \ {"files", "terminal/stream"}

\* the answer to a request without it (app.py:197, 232, 281, 314, 342, 426)
Missing(e) ==
    CASE e \in {"file/read", "file/write", "file/delete"} -> "No filepath specified"
      [] e = "execute/python" -> "No code provided"
      [] e = "execute/bash" -> "No command provided"
      [] e = "ai/chat" -> "No message provided"

\* what a request carries: the container for attach, and for the others
\* whether the filepath, code, command or message is there
ArgsOf(e) ==
    IF e = "attach" THEN AttachArgs
    ELSE IF e \in {"files", "status"} THEN {None}
    ELSE {None, Some("x")}

\* the first Docker command of a handler
FirstCommand(e) ==
    CASE e = "files" -> "test"
      [] e = "file/read" -> "cat"
      [] e = "file/write" -> "mkdir"
      [] e = "file/delete" -> "rm"
      [] e = "execute/python" -> "python3"
      [] e = "execute/bash" -> "bash"
      [] e = "terminal/stream" -> "generate"
      [] e = "ai/chat" -> "chat"

\* the Docker command that follows cmd in its handler, "done" if none does:
\* list_files makes the workspace if the test failed and then lists it
\* (app.py:130-146), write_file makes the parent and then writes
\* (app.py:238-246)
FollowingCommand(e, cmd, ok) ==
    CASE cmd = "test" -> IF ok THEN "ls" ELSE "mkdir"
      [] cmd = "mkdir" -> IF e = "files" THEN "ls" ELSE "tee"
      [] OTHER -> "done"

ErrorReply(text) == [success |-> FALSE, error |-> text, attached |-> FALSE]

OkReply == [success |-> TRUE, error |-> "", attached |-> TRUE]

\* the key in the environment of the server, if any
ApiKeys == {None, Some("key")}

WebInit == \E key \in ApiKeys : HostAtRest(key) /\ ChatIdle

\* Flask hands a request to a handler thread
Receive(t) ==
    /\ requests[t].at \in {"idle", "done"}
    /\ \E e \in Endpoints : \E a \in ArgsOf(e) :
        requests' = [requests EXCEPT ![t] =
            [endpoint |-> e, at |-> "check", arg |-> a, seen |-> None,
             target |-> None, reply |-> ErrorReply("")]]
    /\ UNCHANGED <<current_container, openai_api_key, chatVars, pipeVars, setupVars>>

\* POST /api/attach: app.py:87-108
attach_container(t) ==
    /\ requests[t].endpoint = "attach"
    /\ requests[t].at = "check"
    /\ LET container_name == requests[t].arg IN
        IF container_name = None
        THEN /\ requests' = [requests EXCEPT ![t].at = "done",
                                            ![t].reply = ErrorReply("No container specified")]
             /\ UNCHANGED current_container
        ELSE IF InspectFailed(DockerInspect(container_name[1]))
        THEN /\ requests' = [requests EXCEPT ![t].at = "done",
                                            ![t].reply = ErrorReply("Container not found")]
             /\ UNCHANGED current_container
        ELSE /\ current_container' = container_name
             /\ requests' = [requests EXCEPT ![t].at = "done", ![t].reply = OkReply]
    /\ UNCHANGED <<openai_api_key, chatVars, pipeVars, setupVars>>

\* GET /api/status: app.py:399-408
get_status(t) ==
    /\ requests[t].endpoint = "status"
    /\ requests[t].at = "check"
    /\ requests' = [requests EXCEPT
                      ![t].at = "done",
                      ![t].seen = current_container,
                      ![t].reply = [success |-> TRUE, error |-> "",
                                    attached |-> current_container # None]]
    /\ UNCHANGED <<current_container, openai_api_key, chatVars, pipeVars, setupVars>>

\* the head of every container-dependent handler: the attached check, then
\* the checks of what the request carries (app.py:116-117, 190-197, 224-232,
\* 274-281, 307-314, 335-342, 363-364, 416-426)
CheckAttached(t) ==
    /\ requests[t].endpoint \in DependentEndpoints
    /\ requests[t].at = "check"
    /\ LET e == requests[t].endpoint
           refused ==
               IF ~Attached(current_container) THEN "No container attached"
               ELSE IF e = "ai/chat" /\ openai_api_key = None
                    THEN "OPENAI_API_KEY not configured. Please add it to .env file"
               ELSE IF e \in NeedsArg /\ requests[t].arg = None THEN Missing(e)
               ELSE ""
       IN requests' = [requests EXCEPT
              ![t].seen = current_container,
              ![t].at = IF refused = "" THEN FirstCommand(e) ELSE "done",
              ![t].reply = ErrorReply(refused)]
    /\ UNCHANGED <<current_container, openai_api_key, chatVars, pipeVars, setupVars>>

\* a handler issues its next Docker command, on the container that
\* current_container names at that moment (app.py:131, 138, 144, 202, 239,
\* 246, 286, 317, 345, 436); the command succeeds or fails
RunDockerCommand(t) ==
    /\ requests[t].at \in {"test", "mkdir", "ls", "cat", "tee", "rm", "python3", "bash", "chat"}
    /\ \E ok \in BOOLEAN :
        LET e == requests[t].endpoint
            following == FollowingCommand(e, requests[t].at, ok) IN
        requests' = [requests EXCEPT
            ![t].target = current_container,
            ![t].at = following,
            ![t].reply = IF following # "done" THEN @
                         ELSE IF ok THEN OkReply ELSE ErrorReply("failed")]
    /\ UNCHANGED <<current_container, openai_api_key, chatVars, pipeVars, setupVars>>

\* the response of terminal/stream is consumed: generate() runs, and only
\* then builds its Docker command (app.py:366-394)
Generate(t) ==
    /\ requests[t].at = "generate"
    /\ IF requests[t].arg = None
       THEN requests' = [requests EXCEPT ![t].at = "done",
                                         ![t].reply = ErrorReply("No command provided")]
       ELSE requests' = [requests EXCEPT ![t].at = "done",
                                         ![t].target = current_container,
                                         ![t].reply = OkReply]
    /\ UNCHANGED <<current_container, openai_api_key, chatVars, pipeVars, setupVars>>

WebNext ==
    \E t \in Threads :
        \/ Receive(t)
        \/ attach_container(t)
        \/ get_status(t)
        \/ CheckAttached(t)
        \/ RunDockerCommand(t)
        \/ Generate(t)

WebSpec == WebInit /\ [][WebNext]_vars

----------------------------------------------------------------------------
(* POST /api/ai/chat: one chat process per request, fed through a pipe     *)

\* the message of the request, as characters: none, blank, one line, two
\* lines, the exit word, a line followed by the exit word
ChatMessages ==
    {<<>>, <<" ">>,
     <<"h", "i">>,
     <<"h", "i", "\n", "h", "i">>,
     <<"e", "x", "i", "t">>,
     <<"h", "i", "\n", "q", "u", "i", "t">>}

ExitLine == <<"e", "x", "i", "t">>

\* the position of the first line feed of text, 0 if there is none
FirstLineFeed(text) ==
    IF \E i \in 1..Len(text) : text[i] = "\n"
    THEN CHOOSE i \in 1..Len(text) : text[i] = "\n" /\ \A j \in 1..(i - 1) : text[j] # "\n"
    ELSE 0

\* the lines input() returns for a piped text, one per call, until the text
\* is used up
RECURSIVE LinesOf(_)
LinesOf(text) ==
    IF text = <<>> THEN <<>>
    ELSE LET n == FirstLineFeed(text) IN
         IF n = 0 THEN <<text>>
         ELSE <<SubSeq(text, 1, n - 1)>> \o LinesOf(SubSeq(text, n + 1, Len(text)))

\* app.py:452: what communicate() writes to the stdin of the chat process
Piped(text) == text \o <<"\n">> \o ExitLine \o <<"\n">>

AiChatInit ==
    /\ current_container \in {None, Some("c1")}
    /\ openai_api_key \in ApiKeys
    /\ requests = [t \in Threads |-> IdleRequest]
    /\ PipeIdle
    /\ SetupIdle
    /\ pc = "NotStarted"
    /\ ChatFresh

\* app.py:411-449: the checks, then the chat process is started in the
\* container and the message is written to its stdin
ai_chat ==
    /\ pc = "NotStarted"
    /\ requests["t1"].at = "idle"
    /\ \E m \in ChatMessages :
        LET stripped == Strip(m)
            refused ==
                IF ~Attached(current_container) THEN "No container attached"
                ELSE IF openai_api_key = None
                     THEN "OPENAI_API_KEY not configured. Please add it to .env file"
                ELSE IF stripped = <<>> THEN Missing("ai/chat")
                ELSE ""
        IN  /\ message' = stripped
            /\ IF refused # ""
               THEN /\ pc' = "Refused"
                    /\ stdin' = <<>>
                    /\ requests' = [requests EXCEPT !["t1"] =
                          [endpoint |-> "ai/chat", at |-> "done", arg |-> None,
                           seen |-> current_container, target |-> None,
                           reply |-> ErrorReply(refused)]]
               ELSE /\ pc' = "AwaitingUserInput"
                    /\ stdin' = LinesOf(Piped(stripped))
                    /\ requests' = [requests EXCEPT !["t1"] =
                          [endpoint |-> "ai/chat", at |-> "chat", arg |-> Some("x"),
                           seen |-> current_container, target |-> current_container,
                           reply |-> ErrorReply("")]]
    /\ UNCHANGED <<messages, response, idx, fs, turns, rounds, issued, modelCalls,
                   sent, preLen, execLog, lastEvent, line, log>>
    /\ UNCHANGED <<current_container, openai_api_key, setupVars>>

\* input("You: ") in the chat process takes the next line of the pipe
ReadPiped ==
    /\ requests["t1"].at = "chat"
    /\ stdin # <<>>
    /\ ReadLine(Head(stdin))
    /\ stdin' = Tail(stdin)
    /\ UNCHANGED <<message, webVars, setupVars>>

\* app.py:452-463: the chat process has ended, communicate() returns and the
\* handler answers with its output
Communicate ==
    /\ requests["t1"].at = "chat"
    /\ pc = "Terminated"
    /\ requests' = [requests EXCEPT !["t1"].at = "done", !["t1"].reply = OkReply]
    /\ UNCHANGED <<chatVars, current_container, openai_api_key, pipeVars, setupVars>>

\* app.py:453-456: the chat process has not ended after 120 seconds and is
\* killed
TimeoutExpired ==
    /\ requests["t1"].at = "chat"
    /\ pc # "Terminated"
    /\ pc' = "Terminated"
    /\ lastEvent' = "killed"
    /\ line' = NoLine
    /\ requests' = [requests EXCEPT !["t1"].at = "done",
                                    !["t1"].reply = ErrorReply("Request timed out")]
    /\ UNCHANGED <<messages, response, idx, fs, turns, rounds, issued, modelCalls,
                   sent, preLen, execLog, log>>
    /\ UNCHANGED <<current_container, openai_api_key, pipeVars, setupVars>>

AiChatNext ==
    \/ ai_chat
    \/ ReadPiped
    \/ Communicate
    \/ TimeoutExpired
    \/ ModelFails
    \/ LiveRequestsTools
    \/ ModelAnswers
    \/ DispatchTool
    \/ DispatchRaises

AiChatSpec == AiChatInit /\ [][AiChatNext]_vars

----------------------------------------------------------------------------
(* The host scripts: main() of setup_container.py and of llm.py            *)

Scripts == {"setup_container.py", "llm.py"}

\* what the operator can do at a prompt: type a line, end the input, or
\* press Ctrl-C
Typed(text) == [kind |-> "line", text |-> text]

NoAnswer == [kind |-> "none", text |-> <<>>]

Answers ==
    {Typed(<<>>), Typed(<<"y">>), Typed(<<" ", "Y", "e", "s">>), Typed(<<"n">>),
     Typed(<<"N", "O", " ">>), Typed(<<"x">>),
     [kind |-> "eof", text |-> <<>>], [kind |-> "interrupt", text |-> <<>>]}

\* faulty variant: whatever is answered counts as yes
ConfirmAlways(answer, default) == "yes"

\* setup_container.py:24-53, llm.py:761-790: one round of the prompt, "again"
\* when the loop prompts once more
get_user_confirmation(answer, default) ==
    IF answer.kind # "line" THEN "no"
    ELSE LET reply == Lower(Strip(answer.text)) IN
         IF reply = <<>> THEN (IF default THEN "yes" ELSE "no")
         ELSE IF reply \in {<<"y">>, <<"y", "e", "s">>} THEN "yes"
         ELSE IF reply \in {<<"n">>, <<"n", "o">>} THEN "no"
         ELSE "again"

\* how a step of the pipeline can go: it returns success, returns failure,
\* raises an exception that run_command does not catch, or is interrupted
StepOutcomes == {"ok", "fail", "raise", "interrupt"}

\* faulty variant: the return value of a step is not looked at
AlwaysSucceeded(outcome) == TRUE

\* the tests `if not pull_docker_image(image)` and alike
\* (setup_container.py:97, 104, 110, 116)
Succeeded(outcome) == outcome = "ok"

\* the default of the delete confirmations: no in setup_container.py (139,
\* 148, 157, 167), yes in llm.py (893, 905, 918)
DeleteDefault == script = "llm.py"

Ev(e, r) == [event |-> e, result |-> r, answer |-> NoAnswer, default |-> FALSE]

Asked(e, r, a, d) == [event |-> e, result |-> r, answer |-> a, default |-> d]

\* sys.exit(code)
Exit(code) == step' = "exited" /\ status' = Some(code)

\* the except clauses of main(): the delete confirmation is asked if a
\* container was created, and the script exits with 130 or 1
\* (setup_container.py:153-172, llm.py:899-923)
Handle(kind, created) ==
    IF created
    THEN step' = (IF kind = "interrupt" THEN "ask_interrupt" ELSE "ask_error")
         /\ UNCHANGED status
    ELSE Exit(IF kind = "interrupt" THEN 130 ELSE 1)

SetupInit ==
    /\ current_container = None
    /\ openai_api_key = None
    /\ requests = <<>>
    /\ PipeIdle
    /\ script \in Scripts
    /\ step = "check_docker"
    /\ container_id = None
    /\ trace = <<>>
    /\ status = None
    /\ ChatIdle

\* setup_container.py:64-68, llm.py:802-806
check_docker_installed ==
    /\ step = "check_docker"
    /\ \E installed \in BOOLEAN :
        IF installed THEN step' = "confirm" /\ UNCHANGED status ELSE Exit(1)
    /\ UNCHANGED <<script, container_id, trace, chatVars, webVars, pipeVars>>

\* setup_container.py:89-91, llm.py:832-834: "Do you want to proceed?"
Proceed ==
    /\ step = "confirm"
    /\ \E a \in Answers :
        \E said \in {get_user_confirmation(a, TRUE)} :
            IF said = "again" THEN UNCHANGED <<step, status, trace>>
            ELSE /\ trace' = Append(trace, Asked("confirm", said, a, TRUE))
                 /\ IF said = "yes" THEN step' = "pull" /\ UNCHANGED status ELSE Exit(0)
    /\ UNCHANGED <<script, container_id, chatVars, webVars, pipeVars>>

\* one step of the pipeline inside the try block, and what main() does with
\* its result; create_chat_script catches its own exceptions
\* (chat_script.py:418-442)
RunStep(name, following) ==
    /\ step = name
    /\ \E o \in StepOutcomes :
        \E outcome \in {IF name = "script" /\ o = "raise" THEN "fail" ELSE o} :
            /\ trace' = Append(trace, Ev(name, outcome))
            /\ container_id' = IF name = "create" /\ outcome = "ok" THEN Some("id")
                               ELSE container_id
            /\ IF outcome \in {"interrupt", "raise"}
               THEN Handle(outcome, container_id # None)
               ELSE IF Succeeded(outcome) THEN step' = following /\ UNCHANGED status
               ELSE Exit(1)
    /\ UNCHANGED <<script, chatVars, webVars, pipeVars>>

\* setup_container.py:97-99, llm.py:841-843
pull_docker_image == RunStep("pull", "create")

\* setup_container.py:103-106, llm.py:848-851
create_container == RunStep("create", "python")

\* setup_container.py:110-112, llm.py:856-858
setup_python_environment == RunStep("python", "script")

\* setup_container.py:116-118, llm.py:863-865
create_chat_script == RunStep("script", IF script = "llm.py" THEN "api_key" ELSE "report")

\* setup_container.py:121: "Container setup completed successfully!"
ReportCompleted ==
    /\ step = "report"
    /\ trace' = Append(trace, Ev("completed", "ok"))
    /\ step' = "wait"
    /\ UNCHANGED <<script, container_id, status, chatVars, webVars, pipeVars>>

\* setup_container.py:135-151: Enter ends the script, 'cleanup' asks for the
\* delete confirmation, anything else prompts again, EOF or Ctrl-C asks for
\* the delete confirmation too
WaitForEnter ==
    /\ step = "wait"
    /\ \E a \in Answers \cup {Typed(<<"c", "l", "e", "a", "n", "u", "p">>)} :
        IF a.kind # "line"
        THEN step' = "ask_signal" /\ UNCHANGED status
        ELSE IF Strip(a.text) = <<"c", "l", "e", "a", "n", "u", "p">>
        THEN step' = "ask_cleanup" /\ UNCHANGED status
        ELSE IF Strip(a.text) = <<>> THEN Exit(0)
        ELSE UNCHANGED <<step, status>>
    /\ UNCHANGED <<script, container_id, trace, chatVars, webVars, pipeVars>>

\* llm.py:873-882: getpass; no key ends the script
GetApiKey ==
    /\ step = "api_key"
    /\ \E a \in {Typed(<<>>), Typed(<<"x">>), [kind |-> "eof", text |-> <<>>]} :
        IF a.kind = "line" /\ Strip(a.text) # <<>>
        THEN step' = "chat" /\ UNCHANGED status
        ELSE Exit(1)
    /\ UNCHANGED <<script, container_id, trace, chatVars, webVars, pipeVars>>

\* llm.py:887: the chat session; its result is not looked at, Ctrl-C while
\* docker exec runs reaches the except clause of main()
run_interactive_chat ==
    /\ step = "chat"
    /\ \E o \in {"ok", "fail", "interrupt"} :
        IF o = "interrupt" THEN Handle(o, container_id # None)
        ELSE step' = "ask_normal" /\ UNCHANGED status
    /\ UNCHANGED <<script, container_id, trace, chatVars, webVars, pipeVars>>

\* the places where main() asks whether to delete the container
AskSteps == {"ask_normal", "ask_cleanup", "ask_signal", "ask_interrupt", "ask_error"}

\* where a removal asked for at `ask` runs
RemovalOf(ask) ==
    CASE ask = "ask_normal" -> "rm_normal"
      [] ask = "ask_cleanup" -> "rm_cleanup"
      [] ask = "ask_signal" -> "rm_signal"
      [] ask = "ask_interrupt" -> "rm_interrupt"
      [] ask = "ask_error" -> "rm_error"

\* the exit status after the delete confirmation asked at `at`, and after
\* the removal it led to: llm.py:910, 923 and the end of main()
StatusAfter(at) ==
    CASE at \in {"ask_interrupt", "rm_interrupt"} -> 130
      [] at \in {"ask_error", "rm_error"} -> 1
      [] OTHER -> 0

\* the delete confirmation (setup_container.py:139, 148, 157, 167;
\* llm.py:893, 905, 918)
AskDelete ==
    /\ step \in AskSteps
    /\ \E a \in Answers :
        \E said \in {get_user_confirmation(a, DeleteDefault)} :
            IF said = "again" THEN UNCHANGED <<step, status, trace>>
            ELSE /\ trace' = Append(trace, Asked("ask_delete", said, a, DeleteDefault))
                 /\ IF said = "yes" THEN step' = RemovalOf(step) /\ UNCHANGED status
                    ELSE IF step = "ask_normal"
                    THEN step' = "report_all" /\ UNCHANGED status
                    ELSE Exit(StatusAfter(step))
    /\ UNCHANGED <<script, container_id, chatVars, webVars, pipeVars>>

\* docker_ops.py:95-110, llm.py:743-758: docker rm -f, which removes the
\* container or fails; Ctrl-C during a removal inside the try block reaches
\* the except clause of main()
cleanup_container ==
    /\ step \in {"rm_normal", "rm_cleanup", "rm_signal", "rm_interrupt", "rm_error"}
    /\ \E o \in {"ok", "fail", "interrupt"} :
        /\ o = "interrupt" => step \in {"rm_normal", "rm_cleanup", "rm_signal"}
        /\ trace' = Append(trace, Ev("cleanup", o))
        /\ IF o = "interrupt" THEN Handle(o, container_id # None)
           ELSE IF step = "rm_normal" THEN step' = "report_all" /\ UNCHANGED status
           ELSE Exit(StatusAfter(step))
    /\ UNCHANGED <<script, container_id, chatVars, webVars, pipeVars>>

\* llm.py:925-927: "All operations completed successfully!"
ReportAllCompleted ==
    /\ step = "report_all"
    /\ trace' = Append(trace, Ev("all_completed", "ok"))
    /\ Exit(0)
    /\ UNCHANGED <<script, container_id, chatVars, webVars, pipeVars>>

SetupNext ==
    \/ check_docker_installed
    \/ Proceed
    \/ pull_docker_image
    \/ create_container
    \/ setup_python_environment
    \/ create_chat_script
    \/ ReportCompleted
    \/ WaitForEnter
    \/ GetApiKey
    \/ run_interactive_chat
    \/ AskDelete
    \/ cleanup_container
    \/ ReportAllCompleted

SetupSpec == SetupInit /\ [][SetupNext]_vars

----------------------------------------------------------------------------
(* The conversation loop embedded in llm.py, as a function from the state  *)
(* of the loop and the next thing that happens to it (a line or the end of *)
(* the input, the outcome of the model call, the outcome of a tool, Ctrl-C)*)
(* to the state after it.  The six executors of llm.py:390-498 are the     *)
(* text of chat_script.py:141-238 and are modelled once.                   *)

\* llm.py:532-546
llm_system_message == [role |-> "system", content |-> "SYSTEM_PROMPT"]

\* llm.py:529-557: the loop at its first prompt, in the container c
llm_start(c) ==
    [pc |-> "AwaitingUserInput", messages |-> <<llm_system_message>>,
     response |-> NoResponse, idx |-> 0, fs |-> c, execLog |-> <<>>,
     modelCalls |-> 0, sent |-> <<>>]

\* llm.py:501-510
llm_execute_tool_call(tool_call, f, child) ==
    LET func_name == tool_call.function.name
        func_args == JsonLoads(tool_call.function.arguments)
    IN  IF func_args.raised THEN [raised |-> TRUE, fs |-> f, ran |-> FALSE]
        ELSE IF func_name \in FUNCTION_MAP
        THEN IF ~Binds(func_name, func_args) THEN [raised |-> TRUE, fs |-> f, ran |-> FALSE]
             ELSE LET out == Invoke(func_name, func_args.value, f, child)
                  IN  [raised |-> FALSE, result |-> JsonDumps(out.env), fs |-> out.fs,
                       ran |-> TRUE]
        ELSE [raised |-> FALSE,
              result |-> JsonDumps([success |-> FALSE,
                                    error |-> <<"Unknown function: ", func_name>>]),
              fs |-> f, ran |-> FALSE]

\* faulty variant: the failed user message stays in the transcript
llm_keep_message(msgs) == msgs

\* llm.py:654-660
llm_except(msgs) ==
    IF msgs[Len(msgs)].role = "user" THEN SubSeq(msgs, 1, Len(msgs) - 1) ELSE msgs

\* llm.py:560-574: input() returned text
llm_input(s, text) ==
    LET user_input == Strip(text) IN
    IF Lower(user_input) \in {<<"e", "x", "i", "t">>, <<"q", "u", "i", "t">>}
    THEN [s EXCEPT !.pc = "Terminated"]
    ELSE IF user_input = <<>> THEN s
    ELSE [s EXCEPT !.messages = Append(@, [role |-> "user", content |-> user_input]),
                   !.pc = "AwaitingModelResponse"]

\* llm.py:580-606, 633-652: the model call returned resp
llm_response(s, resp) ==
    LET called == [s EXCEPT !.modelCalls = @ + 1, !.sent = s.messages, !.response = resp] IN
    IF Len(resp.tool_calls) > 0
    THEN [called EXCEPT
            !.messages = Append(@, [role |-> "assistant", content |-> resp.content,
                                    tool_calls |-> resp.tool_calls]),
            !.idx = 1,
            !.pc = "DispatchingTools"]
    ELSE [called EXCEPT
            !.messages = Append(@, [role |-> "assistant",
                                    content |-> IF resp.content = None THEN ""
                                                ELSE resp.content[1]]),
            !.pc = "AwaitingUserInput"]

\* llm.py:580-585, 654-660: the model call raised
llm_model_error(s) ==
    [s EXCEPT !.modelCalls = @ + 1, !.sent = s.messages,
              !.messages = llm_except(@), !.pc = "AwaitingUserInput"]

\* llm.py:609-632, 654-660: one iteration of the for loop over the tool
\* calls, with a child process that goes as `child` if one is started
llm_tool(s, child) ==
    LET tool_call == s.response.tool_calls[s.idx]
        func_args == JsonLoads(tool_call.function.arguments)
        out == llm_execute_tool_call(tool_call, s.fs, child)
    IN  IF func_args.raised
        THEN [s EXCEPT !.messages = llm_except(@), !.pc = "AwaitingUserInput"]
        ELSE IF out.raised
        THEN [s EXCEPT !.messages = llm_except(@), !.pc = "AwaitingUserInput",
                       !.fs = out.fs]
        ELSE [s EXCEPT
                !.messages = Append(@, [role |-> "tool", tool_call_id |-> tool_call.id,
                                        content |-> out.result]),
                !.fs = out.fs,
                !.execLog = IF out.ran THEN Append(@, tool_call.id) ELSE @,
                !.idx = @ + 1,
                !.pc = IF s.idx < Len(s.response.tool_calls) THEN "DispatchingTools"
                       ELSE "AwaitingModelResponse"]

\* llm.py:557-669: one step of main()
llm_main(s, ev) ==
    IF ev.kind \in {"eof", "interrupt"} THEN [s EXCEPT !.pc = "Terminated"]
    ELSE CASE s.pc = "AwaitingUserInput" -> llm_input(s, ev.text)
           [] s.pc = "AwaitingModelResponse" ->
                IF ev.kind = "model_error" THEN llm_model_error(s)
                ELSE llm_response(s, ev.response)
           [] s.pc = "DispatchingTools" -> llm_tool(s, ev.child)
           [] OTHER -> s

----------------------------------------------------------------------------
(* Properties *)

IsToolCallMessage(m) == m.role = "assistant" /\ "tool_calls" \in DOMAIN m

\* message i of msgs is an assistant message whose calls are answered, in
\* order and by id, by exactly the tool messages that follow it
Answered(msgs, i) ==
    LET tcs == msgs[i].tool_calls
        n == Len(tcs)
    IN  /\ i + n <= Len(msgs)
        /\ \A k \in 1..n :
            /\ msgs[i + k].role = "tool"
            /\ msgs[i + k].tool_call_id = tcs[k].id
        /\ i + n < Len(msgs) => msgs[i + n + 1].role # "tool"

\* C1: rollback.  When a model call has failed and the loop is back in
\* AwaitingUserInput, the transcript is as long as it was just before the
\* user message of that turn was appended.
C1_RollbackOnModelFailure ==
    (pc = "AwaitingUserInput" /\ lastEvent = "model_error") => Len(messages) = preLen

\* C2: in the transcript of every model call, every assistant message with
\* n >= 1 tool calls is directly followed by exactly n tool messages, the
\* k-th carrying the id of the k-th call.
C2_ToolMessagesBeforeNextCall ==
    \A i \in 1..Len(sent) : IsToolCallMessage(sent[i]) => Answered(sent, i)

\* C3: no exception escapes the dispatcher.  Every step of the tool loop
\* (short of an interrupt) appends a tool message for the current call, and
\* for a call whose arguments do not parse or do not bind, that message holds
\* a {success: false, error} envelope.
C3_DispatchNeverRaises ==
    [][(pc = "DispatchingTools" /\ pc' # "Terminated") =>
        LET tool_call == response.tool_calls[idx]
            func_args == JsonLoads(tool_call.function.arguments)
            bad == func_args.raised
                   \/ (tool_call.function.name \in FUNCTION_MAP
                       /\ ~Binds(tool_call.function.name, func_args))
        IN  /\ Len(messages') = Len(messages) + 1
            /\ Last(messages').role = "tool"
            /\ Last(messages').tool_call_id = tool_call.id
            /\ bad => /\ ~JsonLoads(Last(messages').content).raised
                      /\ JsonLoads(Last(messages').content).value.success = FALSE
                      /\ "error" \in DOMAIN JsonLoads(Last(messages').content).value
      ]_vars

\* C4: a call of a name outside FUNCTION_MAP gets a tool message with the
\* {success: false, "Unknown function: <name>"} envelope and its id, and a
\* response that holds such a call is dispatched to its end: the loop does
\* not fall back to AwaitingUserInput while dispatching it.
C4_UnknownNameDoesNotAbort ==
    [][(/\ pc = "DispatchingTools"
        /\ pc' # "Terminated"
        /\ \E k \in 1..Len(response.tool_calls) :
              response.tool_calls[k].function.name \notin FUNCTION_MAP) =>
        LET tool_call == response.tool_calls[idx] IN
        /\ pc' # "AwaitingUserInput"
        /\ tool_call.function.name \notin FUNCTION_MAP =>
              messages' = Append(messages,
                  [role |-> "tool",
                   tool_call_id |-> tool_call.id,
                   content |-> JsonObject(
                       [success |-> FALSE,
                        error |-> <<"Unknown function: ", tool_call.function.name>>])])
      ]_vars

\* C5: the calls of a response are independent.  Whatever call i of n does
\* (i < n), the tool loop goes on to call i + 1 after appending the tool
\* message of call i.
C5_LaterCallsStillRun ==
    [][(/\ pc = "DispatchingTools"
        /\ idx < Len(response.tool_calls)
        /\ pc' # "Terminated") =>
        /\ pc' = "DispatchingTools"
        /\ idx' = idx + 1
        /\ Len(messages') = Len(messages) + 1
        /\ Last(messages').role = "tool"
        /\ Last(messages').tool_call_id = response.tool_calls[idx].id
      ]_vars

\* C6: every tool message answers the nearest assistant message before it:
\* that message lists the tool message's call id, and only tool messages lie
\* between the two.
C6_ToolMessageMatchesAssistant ==
    \A i \in 1..Len(messages) :
        messages[i].role = "tool" =>
            \E j \in 1..(i - 1) :
                /\ IsToolCallMessage(messages[j])
                /\ \E k \in 1..Len(messages[j].tool_calls) :
                      messages[j].tool_calls[k].id = messages[i].tool_call_id
                /\ \A m \in (j + 1)..(i - 1) : messages[m].role = "tool"

\* two tool rounds in one turn, the second one answered
C6_Witness ==
    /\ Len(messages) >= 6
    /\ messages[3].role = "assistant"
    /\ messages[4].role = "tool"
    /\ messages[5].role = "assistant"
    /\ messages[6].role = "tool"
    /\ messages[6].tool_call_id # messages[4].tool_call_id

\* the grammar of a transcript between turns, read from message i on:
\* "boundary" expects a user message or the end, "turn" an assistant
\* message, and while ids are pending the tool message of the first of them
RECURSIVE Parses(_, _, _, _)
Parses(msgs, i, mode, pending) ==
    IF i > Len(msgs) THEN mode = "boundary"
    ELSE LET m == msgs[i] IN
         IF pending # <<>>
         THEN /\ m.role = "tool"
              /\ m.tool_call_id = Head(pending)
              /\ Parses(msgs, i + 1, "turn", Tail(pending))
         ELSE IF mode = "boundary"
         THEN m.role = "user" /\ Parses(msgs, i + 1, "turn", <<>>)
         ELSE /\ m.role = "assistant"
              /\ IF "tool_calls" \in DOMAIN m
                 THEN /\ Len(m.tool_calls) >= 1
                      /\ Parses(msgs, i + 1, "turn",
                                [k \in 1..Len(m.tool_calls) |-> m.tool_calls[k].id])
                 ELSE Parses(msgs, i + 1, "boundary", <<>>)

WellFormed(msgs) ==
    /\ Len(msgs) >= 1
    /\ msgs[1].role = "system"
    /\ Parses(msgs, 2, "boundary", <<>>)

\* C7: whenever the loop awaits user input the transcript is the system
\* message followed by complete turns: a user message, groups of an
\* assistant message with tool calls and one tool message per call, and a
\* final assistant text.
C7_WellFormedAtUserInput == pc = "AwaitingUserInput" => WellFormed(messages)

C9_FinalAnswerEndsTurn ==
    [][/\ (pc = "AwaitingModelResponse" /\ lastEvent' = "answer") =>
              /\ Len(response'.tool_calls) = 0
              /\ Len(messages') = Len(messages) + 1
              /\ SubSeq(messages', 1, Len(messages)) = messages
              /\ DOMAIN Last(messages') = {"role", "content"}
              /\ Last(messages').role = "assistant"
              /\ Last(messages').content =
                    (IF response'.content = <<>> THEN "" ELSE response'.content[1])
              /\ pc' = "AwaitingUserInput"
              /\ modelCalls' = modelCalls + 1
       /\ pc = "AwaitingUserInput" =>
              /\ modelCalls' = modelCalls
              /\ pc' = "AwaitingModelResponse" =>
                    (Len(messages') = Len(messages) + 1 /\ Last(messages').role = "user")
      ]_vars

\* a response with neither tool calls nor text was appended as ""
C9_Witness ==
    /\ lastEvent = "answer"
    /\ response.content = None
    /\ Last(messages).role = "assistant"
    /\ Last(messages).content = ""
    /\ pc = "AwaitingUserInput"

\* C10: every turn ends once the provider stops requesting tools: from
\* AwaitingModelResponse the loop reaches AwaitingUserInput (or the session
\* is interrupted); and the loop itself never refuses a further tool round:
\* as long as the provider has calls left to request, a response with tool
\* calls is accepted whatever the number of rounds so far.
C10_TurnEnds ==
    /\ (pc = "AwaitingModelResponse") ~> (pc = "AwaitingUserInput" \/ pc = "Terminated")
    /\ [](pc = "AwaitingModelResponse" /\ issued < MaxToolCalls =>
            ENABLED LiveRequestsTools)

\* one turn ran as many tool rounds as the provider had calls, then ended
C10_Witness ==
    /\ turns = 1
    /\ rounds = MaxToolCalls
    /\ lastEvent = "answer"
    /\ pc = "AwaitingUserInput"

\* a line that holds nothing but whitespace
IsBlank(raw) == \A i \in 1..Len(raw) : raw[i] \in Whitespace

\* C11: a line that is empty after trimming is a no-op.  The step that reads
\* it leaves the transcript and the count of model calls as they were and
\* stays in AwaitingUserInput, and no user message of the transcript is
\* blank.
C11_EmptyInputIsNoOp ==
    /\ [][IsBlank(line') /\ line' # NoLine =>
            /\ pc = "AwaitingUserInput"
            /\ pc' = "AwaitingUserInput"
            /\ messages' = messages
            /\ modelCalls' = modelCalls
            /\ sent' = sent
            /\ fs' = fs
         ]_vars
    /\ [](\A i \in 1..Len(messages) :
            messages[i].role = "user" => ~IsBlank(messages[i].content))

\* a blank line was read between two turns
C11_Witness ==
    /\ line = <<" ">>
    /\ Len(messages) > 1
    /\ pc = "AwaitingUserInput"
    /\ lastEvent = "empty"

\* c is letter k of the lower-case alphabet, in either case
IsLetter(c, k) == c = LowerLetters[k] \/ c = UpperLetters[k]

\* mid spells the word w, letter by letter, in any case
Spells(mid, w) ==
    /\ Len(mid) = Len(w)
    /\ \A n \in 1..Len(w) :
          \E k \in 1..Len(LowerLetters) : w[n] = LowerLetters[k] /\ IsLetter(mid[n], k)

\* raw is "exit" or "quit" in some case between leading and trailing whitespace
IsExitLine(raw) ==
    \E i \in 0..Len(raw), j \in 0..Len(raw) :
        /\ i < j
        /\ \A n \in 1..i : raw[n] \in Whitespace
        /\ \A n \in (j + 1)..Len(raw) : raw[n] \in Whitespace
        /\ \E w \in {<<"e", "x", "i", "t">>, <<"q", "u", "i", "t">>} :
              Spells(SubSeq(raw, i + 1, j), w)

\* C12: the session ends at the prompt on "exit" or "quit" in any case
\* between whitespace, or on end of input, with the transcript and the count
\* of model calls left as they were; a step that reads any other line does
\* not end the session.
C12_OnlyExitWordsTerminate ==
    [][/\ (line' # NoLine /\ IsExitLine(line')) =>
              /\ pc = "AwaitingUserInput"
              /\ pc' = "Terminated"
       /\ (line' # NoLine /\ ~IsExitLine(line')) => pc' # "Terminated"
       /\ (pc = "AwaitingUserInput" /\ pc' = "Terminated") =>
              /\ messages' = messages
              /\ modelCalls' = modelCalls
              /\ sent' = sent
              /\ fs' = fs
      ]_vars

\* " ExIt" ended a session that had seen a turn, and a line that only starts
\* like an exit word was taken as a message
C12_Witness ==
    /\ pc = "Terminated"
    /\ line = <<" ", "E", "x", "I", "t">>
    /\ \E i \in 1..Len(messages) :
          messages[i].role = "user" /\ messages[i].content = <<"e", "x", "i", "t", "s">>

\* the number of leading messages that precede the current user turn: all
\* of them at the prompt, those before the turn's user message otherwise
BeforeTurn == IF pc = "AwaitingUserInput" THEN Len(messages) ELSE preLen

\* C13: the transcript always starts with the system message and holds no
\* other system message, and no step removes or alters a message that
\* precedes the current user turn.
C13_SystemMessageFirstAndOnly ==
    /\ [](/\ Len(messages) >= 1
          /\ messages[1] = SystemMessage
          /\ \A i \in 2..Len(messages) : messages[i].role # "system")
    /\ [][/\ Len(messages') >= BeforeTurn
           /\ SubSeq(messages', 1, BeforeTurn) = SubSeq(messages, 1, BeforeTurn)
         ]_vars

\* the second turn was rolled back after a model failure, the first turn
\* is still in the transcript
C13_Witness ==
    /\ lastEvent = "model_error"
    /\ turns = 2
    /\ Len(messages) = preLen
    /\ Len(messages) >= 3
    /\ messages[1] = SystemMessage
    /\ messages[2].role = "user"

\* how often x occurs in seq
Count(seq, x) == Cardinality({n \in 1..Len(seq) : seq[n] = x})

\* the executor named by the call exists and the arguments parse and bind
IsExecutable(tc) ==
    /\ tc.function.name \in FUNCTION_MAP
    /\ Binds(tc.function.name, JsonLoads(tc.function.arguments))

\* C14: no automatic retry.  After a failed model call the next model call
\* comes only after a line that is neither blank nor an exit word was read;
\* no call is executed twice; and once the loop is back at the prompt every
\* executable call of every assistant message of the transcript has been
\* executed exactly once.
C14_NoRetryExactlyOnce ==
    /\ [][/\ (pc = "AwaitingUserInput" => modelCalls' = modelCalls)
           /\ (lastEvent = "model_error" /\ pc' = "AwaitingModelResponse") =>
                  /\ line' # NoLine
                  /\ ~IsBlank(line')
                  /\ ~IsExitLine(line')
         ]_vars
    /\ [](\A id \in 1..issued : Count(execLog, id) <= 1)
    /\ [](pc = "AwaitingUserInput" =>
            \A i \in 1..Len(messages) :
                IsToolCallMessage(messages[i]) =>
                    \A k \in 1..Len(messages[i].tool_calls) :
                        (IsExecutable(messages[i].tool_calls[k]) =>
                            Count(execLog, messages[i].tool_calls[k].id) = 1))

Target(e) == Resolve(e.before, JoinPath(WORKSPACE, e.path)).path

\* the entries of tree f outside of the workspace
OutsideOf(f) == [q \in {y \in DOMAIN f : ~IsPrefix(WORKSPACE, y)} |-> f[q]]

\* C16: the executors stay inside the workspace.  Every call that succeeded
\* acted on an entry at or below /workspace, and no call changed an entry
\* outside of /workspace.
C16_PathsStayInWorkspace ==
    log # <<>> =>
        LET e == Last(log) IN
        /\ e.env.success => IsPrefix(WORKSPACE, Target(e))
        /\ OutsideOf(fs) = OutsideOf(e.before)

\* C17: round trip.  Where read_file(p) directly follows a create_file(p, c)
\* that succeeded, it returns the success envelope with content c, whatever
\* was at p and whichever parent directories existed before.
C17_RoundTrip ==
    \A i \in 1..(Len(log) - 1) :
        (/\ log[i].name = "create_file"
         /\ log[i].env.success
         /\ log[i + 1].name = "read_file")
        => /\ log[i + 1].env.success
           /\ log[i + 1].env.content = log[i].content[1]

\* C18: where create_file(p, c) succeeded, delete_file(p) then succeeded and
\* read_file(p) follows, the read returns a failure envelope: success is
\* false, there is an error text and no content.
C18_ReadAfterDeleteFails ==
    \A i \in 1..(Len(log) - 2) :
        (/\ log[i].name = "create_file" /\ log[i].env.success
         /\ log[i + 1].name = "delete_file" /\ log[i + 1].env.success
         /\ log[i + 2].name = "read_file")
        => /\ ~log[i + 2].env.success
           /\ DOMAIN log[i + 2].env = {"success", "error"}

\* d/b.txt was created together with its directory, deleted, and read
C18_Witness ==
    /\ Len(log) = 3
    /\ log[1].name = "create_file" /\ log[1].env.success
    /\ log[1].path = <<"d", "b.txt">>
    /\ <<"/", "workspace", "d">> \notin DOMAIN log[1].before
    /\ log[2].name = "delete_file" /\ log[2].env.success
    /\ log[3].name = "read_file"
    /\ log[3].env = Failure(<<"No such file or directory">>)

\* tree g is tree f without the entry q and the entries below it
IsWithout(g, f, q) ==
    /\ DOMAIN g = {y \in DOMAIN f : ~IsPrefix(q, y)}
    /\ \A y \in DOMAIN g : g[y] = f[y]

\* C19: delete_file(p) on a file or a directory returns success and leaves
\* the tree without that entry and the entries below it, every other entry
\* as it was; on a path where neither is found it returns the failure
\* envelope "Path does not exist" and leaves the tree as it was.
C19_DeleteRemovesExactlyP ==
    (log # <<>> /\ Last(log).name = "delete_file") =>
        LET e == Last(log)
            full_path == JoinPath(WORKSPACE, e.path)
        IN  IF IsFile(e.before, full_path) \/ IsDir(e.before, full_path)
            THEN /\ e.env.success
                 /\ IsWithout(fs, e.before, Target(e))
            ELSE /\ e.env = Failure(<<"Path does not exist">>)
                 /\ fs = e.before

\* the entries of tree f directly below directory q
ChildrenOf(f, q) == {y \in DOMAIN f : Len(y) = Len(q) + 1 /\ IsPrefix(q, y)}

\* item describes entry y of tree f, listed under the directory path d
Describes(item, f, y, d) ==
    /\ DOMAIN item = {"name", "path", "type", "size"}
    /\ item.name = Last(y)
    /\ item.path = Append(SelectSeq(d, LAMBDA seg : seg # "."), Last(y))
    /\ item.type = (IF f[y].kind = "dir" THEN "directory" ELSE "file")
    /\ item.size = (IF f[y].kind = "file" THEN Some(Len(f[y].content)) ELSE None)

\* C20: list_files(d) of a directory of the workspace returns success with
\* one item for each entry directly below d and no other item, in ascending
\* order of name, each with name, path relative to the workspace, type, and
\* a size that is given for files only, and with count the number of items;
\* without an argument it lists /workspace; on a path that is no directory
\* it returns a failure envelope; it never changes the tree.
C20_ListIsExactAndSorted ==
    (/\ log # <<>>
     /\ Last(log).name = "list_files"
     /\ IsPrefix(WORKSPACE, Target(Last(log)))) =>
        LET e == Last(log)
            dir == IF e.given THEN Target(e) ELSE WORKSPACE
            kids == ChildrenOf(e.before, dir)
        IN  /\ fs = e.before
            /\ IF dir \in DOMAIN e.before /\ e.before[dir].kind = "dir"
               THEN /\ e.env.success
                    /\ e.env.count = Len(e.env.items)
                    /\ Len(e.env.items) = Cardinality(kids)
                    /\ \A y \in kids : \E i \in 1..Len(e.env.items) :
                          Describes(e.env.items[i], e.before, y, e.path)
                    /\ \A i, j \in 1..Len(e.env.items) :
                          i < j => NameRank(e.env.items[i].name)
                                     < NameRank(e.env.items[j].name)
               ELSE /\ ~e.env.success
                    /\ DOMAIN e.env = {"success", "error"}

\* /workspace holds a file and a directory and was listed without an
\* argument: the file comes first and has a size, the directory has none
C20_Witness ==
    /\ log # <<>>
    /\ Last(log).name = "list_files"
    /\ ~Last(log).given
    /\ Last(log).env.success
    /\ Last(log).env.count = 2
    /\ Last(log).env.items[1] =
          [name |-> "a.txt", path |-> <<"a.txt">>, type |-> "file", size |-> Some(3)]
    /\ Last(log).env.items[2] =
          [name |-> "d", path |-> <<"d">>, type |-> "directory", size |-> None]

\* the child of log entry e was started and ran longer than the limit
TimedOut(e) == e.child.spawned /\ e.child.seconds > TimeoutSeconds

\* C21: a child that exceeds the 30 s limit gives the failure envelope
\* "Execution timed out (30s limit)", and no other outcome of execute_python
\* or execute_bash gives an envelope with that error.
C21_TimeoutDistinguishable ==
    \A i \in 1..Len(log) :
        LET e == log[i] IN
        /\ TimedOut(e) => e.env = Failure(<<"Execution timed out (30s limit)">>)
        /\ ~TimedOut(e) =>
              \/ "error" \notin DOMAIN e.env
              \/ e.env.error # <<"Execution timed out (30s limit)">>

\* a timeout, a child that could not be started and a non-zero exit, one
\* after the other
C21_Witness ==
    /\ Len(log) = 3
    /\ TimedOut(log[1])
    /\ ~log[2].child.spawned /\ ~log[2].env.success
    /\ log[3].child.spawned /\ log[3].child.returncode = 1 /\ ~log[3].env.success
    /\ log[3].name = "execute_bash"

\* C22: every envelope with success false has an error field.
C22_FailureCarriesError ==
    \A i \in 1..Len(log) : ~log[i].env.success => "error" \in DOMAIN log[i].env

\* C23: when the child was started and ended within the limit, the envelope
\* holds its stdout, stderr and exit status, and success is true exactly
\* when the exit status is 0.
C23_ExitEnvelope ==
    \A i \in 1..Len(log) :
        LET e == log[i] IN
        (e.child.spawned /\ ~TimedOut(e)) =>
            /\ DOMAIN e.env = {"success", "stdout", "stderr", "returncode"}
            /\ e.env.returncode = e.child.returncode
            /\ e.env.success = (e.child.returncode = 0)

\* a request that issued a Docker command
Issued(r) == r.target # None

\* C24: every Docker command of a request targets the container that was
\* attached when the request passed its attached check, whatever other
\* requests attach in the meantime
C24_CommandsTargetCheckedContainer ==
    \A t \in Threads :
        (requests[t].endpoint \in DependentEndpoints /\ Issued(requests[t]))
            => requests[t].target = requests[t].seen

\* a request of a container-dependent endpoint that was checked
Checked(r) == r.endpoint \in DependentEndpoints /\ r.at # "check"

\* C25: a container-dependent request checked while no container is attached
\* is answered {success: false, "No container attached"} and issues no
\* Docker command; status answers attached = true exactly if
\* current_container is set
C25_UnattachedIsRefused ==
    \A t \in Threads :
        /\ (Checked(requests[t]) /\ requests[t].seen = None)
            => /\ requests[t].at = "done"
               /\ requests[t].reply = ErrorReply("No container attached")
               /\ ~Issued(requests[t])
        /\ (Checked(requests[t]) /\ current_container = None)
            => requests[t].seen = None
        /\ (requests[t].endpoint = "status" /\ requests[t].at = "done")
            => requests[t].reply.attached = (requests[t].seen # None)

C25_Witness ==
    /\ current_container = None
    /\ \E t \in Threads :
        /\ requests[t].endpoint = "ai/chat" /\ requests[t].at = "done"
        /\ requests[t].arg # None
        /\ openai_api_key # None
    /\ \E t \in Threads : requests[t].endpoint = "status" /\ requests[t].at = "done"

\* the step is the attach handler of thread t deciding
Attaches(t) ==
    /\ requests[t].endpoint = "attach"
    /\ requests[t].at = "check"
    /\ requests'[t].at = "done"

\* C26: current_container changes only in an attach request that names a
\* container for which docker inspect succeeds, and becomes that name; an
\* attach without a name or for a container that does not exist answers an
\* error and leaves current_container as it was
C26_OnlyAttachChanges ==
    [][/\ current_container' # current_container
            => \E t \in Threads :
                /\ Attaches(t)
                /\ requests[t].arg # None
                /\ DockerInspect(requests[t].arg[1]) = 0
                /\ current_container' = requests[t].arg
       /\ \A t \in Threads :
            (Attaches(t) /\ (requests[t].arg = None \/ requests[t].arg[1] \notin Running))
                => /\ ~requests'[t].reply.success
                   /\ current_container' = current_container]_vars

C26_Witness ==
    /\ current_container = Some("c1")
    /\ \E t \in Threads :
        /\ requests[t].endpoint = "attach" /\ requests[t].at = "done"
        /\ requests[t].arg = Some("gone")
        /\ requests[t].reply = ErrorReply("Container not found")

\* the session of an /api/ai/chat request was ended by the appended exit
\* line
EndedByExitLine ==
    /\ requests["t1"].endpoint = "ai/chat"
    /\ pc = "Terminated"
    /\ lastEvent = "goodbye"
    /\ stdin = <<>>

\* C27: the chat process of an /api/ai/chat request starts from the system
\* message alone, and by the time the appended exit line ends the session
\* it has taken exactly one user message, the message of the request
C27_OneUserMessagePerRequest ==
    /\ (requests["t1"].at = "chat" /\ lastEvent = "start") => messages = <<SystemMessage>>
    /\ EndedByExitLine =>
        /\ turns = 1
        /\ \A i \in 1..Len(sent) :
            sent[i].role = "user" => sent[i].content = message

\* the answer is y or yes, or Enter where the default is yes
Affirmative(e) ==
    /\ e.answer.kind = "line"
    /\ LET typed == Lower(Strip(e.answer.text)) IN
        \/ typed \in {<<"y">>, <<"y", "e", "s">>}
        \/ typed = <<>> /\ e.default

\* C28: every call of cleanup_container comes right after a delete
\* confirmation that was answered y, yes or (where the default is yes)
\* Enter, which was asked after the container was created; EOF or Ctrl-C at
\* that prompt is a no
C28_CleanupOnlyAfterConfirmation ==
    \A i \in 1..Len(trace) :
        trace[i].event = "cleanup" =>
            /\ i > 1
            /\ trace[i - 1].event = "ask_delete"
            /\ Affirmative(trace[i - 1])
            /\ \E j \in 1..(i - 1) : trace[j].event = "create" /\ trace[j].result = "ok"

C28_Witness ==
    /\ script = "llm.py"
    /\ Len(trace) > 1
    /\ trace[Len(trace)].event = "cleanup"
    /\ trace[Len(trace) - 1].answer = Typed(<<>>)
    /\ \E i \in 1..Len(trace) : trace[i].event = "python" /\ trace[i].result = "raise"

StepOrder == <<"confirm", "pull", "create", "python", "script">>

IsStep(e) == \E k \in 1..Len(StepOrder) : StepOrder[k] = e.event

\* the steps of the pipeline that ran, in the order they ran
StepsRun == SelectSeq(trace, IsStep)

StepSucceeded(e) == e.result \in {"ok", "yes"}

StepFailed(e) == e.result \in {"fail", "raise"}

\* C29: the steps run in the order confirm, pull, create, python
\* environment, chat script, each one only after all earlier ones succeeded;
\* a step that fails is the last one to run and the script ends with exit
\* status 1; completion is reported only after all five succeeded
C29_PipelineOrder ==
    /\ Len(StepsRun) <= Len(StepOrder)
    /\ \A k \in 1..Len(StepsRun) :
        /\ StepsRun[k].event = StepOrder[k]
        /\ k < Len(StepsRun) => StepSucceeded(StepsRun[k])
        /\ StepFailed(StepsRun[k]) =>
            /\ k = Len(StepsRun)
            /\ step \in {"exited", "ask_error", "rm_error"}
            /\ status # None => status = Some(1)
    /\ \A i \in 1..Len(trace) :
        trace[i].event \in {"completed", "all_completed"} =>
            /\ Len(StepsRun) = Len(StepOrder)
            /\ \A k \in 1..Len(StepsRun) : StepSucceeded(StepsRun[k])

C29_Witness ==
    /\ script = "setup_container.py"
    /\ status = Some(1)
    /\ Len(StepsRun) = 4
    /\ StepsRun[4].result = "raise"
    /\ \E i \in 1..Len(trace) : trace[i].event = "ask_delete"

\* the state of the loop of chat_script.py
LoopState ==
    [pc |-> pc, messages |-> messages, response |-> response, idx |-> idx, fs |-> fs,
     execLog |-> execLog, modelCalls |-> modelCalls, sent |-> sent]

AnyChild == CHOOSE c \in ChildOutcomes : TRUE

Happening(kind, text, resp, child) ==
    [kind |-> kind, text |-> text, response |-> resp, child |-> child]

\* what happened to the loop of chat_script.py in the step: the line that
\* input() returned, the end of the input or Ctrl-C, the failure or the
\* response of the model call, or a tool call with some child process
Happened ==
    IF line' # NoLine THEN {Happening("line", line', NoResponse, AnyChild)}
    ELSE IF lastEvent' = "goodbye" THEN {Happening("interrupt", <<>>, NoResponse, AnyChild)}
    ELSE IF lastEvent' = "model_error"
         THEN {Happening("model_error", <<>>, NoResponse, AnyChild)}
    ELSE IF lastEvent' \in {"tool_calls", "answer"}
         THEN {Happening("response", <<>>, response', AnyChild)}
    ELSE {Happening("tool", <<>>, NoResponse, c) : c \in ChildOutcomes}

\* C30: started in the same container and given the same lines, model
\* outcomes and tool outcomes, the loop of llm.py and the loop of
\* chat_script.py are in the same state after every step: same transcript,
\* same position, same model calls with the same arguments, same tool
\* executions in the same order, same file tree
C30_LoopsInLockStep ==
    /\ LoopState = llm_start(fs)
    /\ [][\E ev \in Happened : LoopState' = llm_main(LoopState, ev)]_vars

C30_Witness ==
    /\ lastEvent = "dispatch_error"
    /\ Len(execLog) > 1
    /\ turns = MaxTurns
    /\ \E i \in 1..Len(messages) : messages[i].role = "tool"

====
